---- MODULE Spec2Model ----
(***************************************************************************)
(* FeexPay webhook service (src/main.py): signature verification, status   *)
(* mapping, the three-branch order reconciliation against the "orders"     *)
(* table, and the HTTP endpoint layer.                                     *)
(*                                                                         *)
(* JSON strings, header values and column values are sequences of          *)
(* one-character strings; Python's None / SQL NULL / an absent key is the  *)
(* value Null, which no character sequence equals.  The "orders" table is  *)
(* a bag of rows: the code never observes row order or row identity (the   *)
(* only use of a lookup's result is the emptiness test of existing.data).  *)
(* The recognised payload fields are JSON strings or absent, the amount a  *)
(* JSON number or absent; request bodies are JSON objects or not JSON.     *)
(***************************************************************************)
EXTENDS Bags, FiniteSets, Integers, Sequences, TLC

VARIABLES secret, orders, pc, req, resp, ops, start, nreq, first, arg, result

vars == <<secret, orders, pc, req, resp, ops, start, nreq, first, arg, result>>

-----------------------------------------------------------------------------
(* Values *)

Null == <<"null">>

Empty == <<>>

\* Python truthiness of an Optional[str]: None and "" are falsy.
Truthy(v) == v # Null /\ v # Empty

\* Python's `a or b`: a when a is truthy, else b (whatever b is).
Or(a, b) == IF Truthy(a) THEN a ELSE b

A1 == <<"A", "1">>

T1 == <<"T", "1">>

T2 == <<"T", "2">>

Mtn == <<"m", "t", "n">>

Feexpay == <<"f", "e", "e", "x", "p", "a", "y">>

SuccessMixed == <<"S", "u", "c", "c", "e", "s", "s">>

FailedLower == <<"f", "a", "i", "l", "e", "d">>

ProvenanceNote == <<"C", "r", "e", "a", "t", "e", "d", " ", "b", "y", " ",
                    "F", "e", "e", "x", "P", "a", "y", " ",
                    "w", "e", "b", "h", "o", "o", "k">>

ShopNote == <<"s", "h", "o", "p">>

\* The JSON number 100, written as its digits.
Amount100 == <<"1", "0", "0">>

-----------------------------------------------------------------------------
(* Status Mapper *)

LowerToUpper ==
    [c \in {"a","b","c","d","e","f","g","h","i","j","k","l","m",
            "n","o","p","q","r","s","t","u","v","w","x","y","z"} |->
        CASE c = "a" -> "A" [] c = "b" -> "B" [] c = "c" -> "C"
          [] c = "d" -> "D" [] c = "e" -> "E" [] c = "f" -> "F"
          [] c = "g" -> "G" [] c = "h" -> "H" [] c = "i" -> "I"
          [] c = "j" -> "J" [] c = "k" -> "K" [] c = "l" -> "L"
          [] c = "m" -> "M" [] c = "n" -> "N" [] c = "o" -> "O"
          [] c = "p" -> "P" [] c = "q" -> "Q" [] c = "r" -> "R"
          [] c = "s" -> "S" [] c = "t" -> "T" [] c = "u" -> "U"
          [] c = "v" -> "V" [] c = "w" -> "W" [] c = "x" -> "X"
          [] c = "y" -> "Y" [] c = "z" -> "Z"]

\* The normalisation left out.
Upper_Identity(s) == s

\* str.upper(), character by character.
Upper(s) ==
    [i \in 1..Len(s) |->
        IF s[i] \in DOMAIN LowerToUpper THEN LowerToUpper[s[i]] ELSE s[i]]

ConfirmedWords ==
    { <<"S","U","C","C","E","S","S">>,
      <<"S","U","C","C","E","S","S","F","U","L">>,
      <<"C","O","M","P","L","E","T","E","D">> }

FailedWords ==
    { <<"F","A","I","L">>,
      <<"F","A","I","L","E","D">>,
      <<"C","A","N","C","E","L","E","D">>,
      <<"C","A","N","C","E","L","L","E","D">> }

map_payment_status(provider_status) ==
    LET normalized == Upper(Or(provider_status, Empty))
    IN  IF normalized \in ConfirmedWords THEN "confirmed"
        ELSE IF normalized \in FailedWords THEN "failed"
        ELSE "pending"

-----------------------------------------------------------------------------
(* Signature Verifier *)

\* hmac.new(key, raw_body, sha256).hexdigest(): a digest determined by the
\* key and the exact raw body, different for different keys or bodies.
HexDigest(key, raw_body) == <<"hmac-sha256", key, raw_body>>

constant_time_compare(a, b) == a = b

\* verify_signature without the missing-header test.
verify_signature_NoMissingCheck(key, raw_body, provided_sig) ==
    IF ~Truthy(key) THEN "pass"
    ELSE IF provided_sig = Null THEN "pass"
    ELSE IF ~constant_time_compare(provided_sig, HexDigest(key, raw_body))
         THEN "Invalid signature"
    ELSE "pass"

\* verify_signature testing the header before the secret.
verify_signature_HeaderFirst(key, raw_body, provided_sig) ==
    IF ~Truthy(provided_sig) THEN "Missing signature header"
    ELSE IF ~Truthy(key) THEN "pass"
    ELSE IF ~constant_time_compare(provided_sig, HexDigest(key, raw_body))
         THEN "Invalid signature"
    ELSE "pass"

\* "pass", or the detail of the HTTPException(401) that is raised.
verify_signature(key, raw_body, provided_sig) ==
    IF ~Truthy(key) THEN "pass"
    ELSE IF ~Truthy(provided_sig) THEN "Missing signature header"
    ELSE IF ~constant_time_compare(provided_sig, HexDigest(key, raw_body))
         THEN "Invalid signature"
    ELSE "pass"

\* The two header names read in the other order.
SelectedSignature_GenericFirst(headers) == Or(headers.generic, headers.feexpay)

\* request.headers.get("X-Feexpay-Signature") or request.headers.get("X-Signature")
SelectedSignature(headers) == Or(headers.feexpay, headers.generic)

-----------------------------------------------------------------------------
(* Order Reconciler: field extraction, validation, persistence operations *)

\* upsert_order, lines 114-117: the fallback chains.
TxId(payload) == Or(payload.transaction_id, payload.reference)

OrderRef(payload) == Or(payload.order_number, payload.reference)

ProviderStatus(payload) == Or(payload.status, payload.payment_status)

ProviderName(payload) == Or(payload.payment_provider, Feexpay)

StatusApp(payload) == map_payment_status(Or(ProviderStatus(payload), Empty))

\* The validation testing for None only, not for emptiness.
Invalid_NoneOnly(payload) == TxId(payload) = Null /\ OrderRef(payload) = Null

\* upsert_order, line 119.
Invalid(payload) == ~Truthy(TxId(payload)) /\ ~Truthy(OrderRef(payload))

\* .eq(column, value): SQL equality, which a NULL column never satisfies.
RowMatches(row, column, value) == row[column] # Null /\ row[column] = value

\* The lookup filtering on the wrong column.
SelectFinds_WrongColumn(table, column, value) ==
    \E row \in BagToSet(table) : RowMatches(row, "payment_reference", value)

\* select("id").eq(column, value).limit(1): existing.data is non-empty
\* exactly when some row matches.
SelectFinds(table, column, value) ==
    \E row \in BagToSet(table) : RowMatches(row, column, value)

\* The number of rows of the table that are among the given rows.
RECURSIVE CopiesOf(_, _)
CopiesOf(table, rows) ==
    IF rows = {} THEN 0
    ELSE LET row == CHOOSE r \in rows : TRUE
         IN  CopiesIn(row, table) + CopiesOf(table, rows \ {row})

\* A row after update(fields).eq(column, value).
Updated(row, column, value, fields) ==
    IF RowMatches(row, column, value)
    THEN [k \in DOMAIN row |-> IF k \in DOMAIN fields THEN fields[k] ELSE row[k]]
    ELSE row

\* update(fields).eq(column, value): every matching row gets the fields.
UpdateWhere(table, column, value, fields) ==
    LET rows == BagToSet(table)
    IN  [target \in {Updated(row, column, value, fields) : row \in rows} |->
            CopiesOf(table, {row \in rows :
                        Updated(row, column, value, fields) = target})]

\* An insert that skips a row whose order_number is already stored.
InsertRow_Upsert(table, row) ==
    IF \E r \in BagToSet(table) : r.order_number = row.order_number
    THEN table
    ELSE table (+) SetToBag({row})

\* insert(row): one more row.
InsertRow(table, row) == table (+) SetToBag({row})

\* The order_number update taking payment_reference from the transaction id.
FieldsByOrderNumber_RefFromTx(payload) ==
    [transaction_id    |-> TxId(payload),
     payment_reference |-> TxId(payload),
     payment_provider  |-> ProviderName(payload),
     payment_status    |-> ProviderStatus(payload),
     status            |-> StatusApp(payload)]

\* The order_number update leaving transaction_id out.
FieldsByOrderNumber_NoTxId(payload) ==
    [payment_reference |-> OrderRef(payload),
     payment_provider  |-> ProviderName(payload),
     payment_status    |-> ProviderStatus(payload),
     status            |-> StatusApp(payload)]

\* upsert_order, lines 137-143.
FieldsByOrderNumber(payload) ==
    [transaction_id    |-> TxId(payload),
     payment_reference |-> OrderRef(payload),
     payment_provider  |-> ProviderName(payload),
     payment_status    |-> ProviderStatus(payload),
     status            |-> StatusApp(payload)]

\* The transaction_id update also writing the payload amount.
FieldsByTransactionId_WithAmount(payload) ==
    [payment_reference |-> OrderRef(payload),
     payment_provider  |-> ProviderName(payload),
     payment_status    |-> ProviderStatus(payload),
     status            |-> StatusApp(payload),
     total_amount      |-> payload.amount]

\* The transaction_id update writing the raw status without the mapped one.
FieldsByTransactionId_NoStatus(payload) ==
    [payment_reference |-> OrderRef(payload),
     payment_provider  |-> ProviderName(payload),
     payment_status    |-> ProviderStatus(payload)]

\* The transaction_id update also writing transaction_id, from order_ref.
FieldsByTransactionId_WithTxId(payload) ==
    [transaction_id    |-> OrderRef(payload),
     payment_reference |-> OrderRef(payload),
     payment_provider  |-> ProviderName(payload),
     payment_status    |-> ProviderStatus(payload),
     status            |-> StatusApp(payload)]

\* upsert_order, lines 156-161.
FieldsByTransactionId(payload) ==
    [payment_reference |-> OrderRef(payload),
     payment_provider  |-> ProviderName(payload),
     payment_status    |-> ProviderStatus(payload),
     status            |-> StatusApp(payload)]

\* The insert dropping the payload amount.
NewOrder_NoAmount(payload) ==
    [order_number      |-> OrderRef(payload),
     transaction_id    |-> TxId(payload),
     payment_reference |-> OrderRef(payload),
     payment_provider  |-> ProviderName(payload),
     payment_status    |-> ProviderStatus(payload),
     status            |-> StatusApp(payload),
     total_amount      |-> Null,
     notes             |-> ProvenanceNote]

\* upsert_order, lines 165-174.
NewOrder(payload) ==
    [order_number      |-> OrderRef(payload),
     transaction_id    |-> TxId(payload),
     payment_reference |-> OrderRef(payload),
     payment_provider  |-> ProviderName(payload),
     payment_status    |-> ProviderStatus(payload),
     status            |-> StatusApp(payload),
     total_amount      |-> payload.amount,
     notes             |-> ProvenanceNote]

-----------------------------------------------------------------------------
(* Inputs *)

MaxRequests == 3

Workers == {"w1", "w2"}

SeqWorker == "w1"

SecretKey == <<"k", "e", "y">>

OtherKey == <<"o", "l", "d">>

MkPayload(ids, attrs) ==
    [transaction_id   |-> ids[1],
     reference        |-> ids[2],
     order_number     |-> ids[3],
     status           |-> attrs[1],
     payment_status   |-> attrs[2],
     payment_provider |-> attrs[3],
     amount           |-> attrs[4]]

\* (transaction_id, reference, order_number)
AllIds == {Null, T1, T2} \X {Null, Empty, T1} \X {Null, A1}

FewIds == { <<Null, Null, Null>>, <<Null, Null, A1>>, <<Null, T1, Null>> }

\* (status, payment_status, payment_provider, amount)
RichAttrs == <<SuccessMixed, FailedLower, Mtn, Amount100>>

BareAttrs == <<Null, Null, Null, Null>>

BlankAttrs == <<Empty, FailedLower, Empty, Null>>

EmptyPayload == MkPayload(<<Null, Null, Null>>, BareAttrs)

Payloads ==
    {MkPayload(i, RichAttrs) : i \in AllIds}
    \cup {MkPayload(i, a) : i \in FewIds, a \in {BareAttrs, BlankAttrs}}

\* A raw body: either the JSON text of an object, or bytes that are not JSON.
JsonBody(payload) == [wellformed |-> TRUE, object |-> payload]

GarbageBody == [wellformed |-> FALSE, object |-> EmptyPayload]

NoHeaders == [feexpay |-> Null, generic |-> Null]

\* What a sender may put in a signature header for the body it sends.
HeaderValues(key, body) ==
    {Null, Empty, HexDigest(key, body), HexDigest(OtherKey, body)}

WebhookRoute == "POST /webhooks/feexpay"

ProbeRoutes == {"GET /", "POST /", "GET /health"}

\* Requests of the provider (correctly signed, any payload), requests with
\* every combination of the two signature headers over two bodies, and probes.
Requests(key) ==
    {[route |-> WebhookRoute,
      headers |-> [feexpay |-> HexDigest(key, JsonBody(pl)), generic |-> Null],
      body |-> JsonBody(pl)] : pl \in Payloads}
    \cup UNION {
        {[route |-> WebhookRoute,
          headers |-> [feexpay |-> f, generic |-> g],
          body |-> b] : f \in HeaderValues(key, b), g \in HeaderValues(key, b)}
        : b \in {GarbageBody, JsonBody(MkPayload(<<Null, Null, A1>>, RichAttrs))}}
    \cup {[route |-> r, headers |-> h, body |-> GarbageBody] :
            r \in ProbeRoutes,
            h \in {NoHeaders, [feexpay |-> Empty, generic |-> OtherKey]}}

NoRequest == [route |-> "none", headers |-> NoHeaders, body |-> GarbageBody]

NoResponse == [code |-> 0, detail |-> ""]

NoFirst == [redelivered |-> FALSE, count |-> 0, code |-> 0, ops |-> <<>>]

\* An order created by the shop, not yet paid.
ShopOrder ==
    [order_number      |-> A1,
     transaction_id    |-> Null,
     payment_reference |-> Null,
     payment_provider  |-> Null,
     payment_status    |-> Null,
     status            |-> "pending",
     total_amount      |-> Amount100,
     notes             |-> ShopNote]

\* The order an earlier notification {"transaction_id": "T1"} created.
EarlierOrder == NewOrder(MkPayload(<<T1, Null, Null>>, BareAttrs))

InitStores ==
    {EmptyBag, SetToBag({ShopOrder}), SetToBag({ShopOrder, EarlierOrder})}

-----------------------------------------------------------------------------
(* HTTP Endpoint Layer *)

Ok200 == [code |-> 200, detail |-> "ok"]

ErrorMessage == "persistence failure"

PersistenceOps ==
    {"select_order_number", "update_order_number",
     "select_transaction_id", "update_transaction_id", "insert"}

\* feexpay_webhook decoding the body before it verifies the signature.
WebhookEntry_ParseFirst(key, r) ==
    LET verdict == verify_signature(key, r.body, SelectedSignature(r.headers))
        payload == r.body.object
    IN  IF ~r.body.wellformed
        THEN [steps |-> <<"json">>, pc |-> "done",
              resp |-> [code |-> 400, detail |-> "Invalid JSON body"]]
        ELSE IF verdict # "pass"
        THEN [steps |-> <<"json", "verify_signature">>, pc |-> "done",
              resp |-> [code |-> 401, detail |-> verdict]]
        ELSE IF Invalid(payload)
        THEN [steps |-> <<"json", "verify_signature", "upsert_order">>,
              pc |-> "done",
              resp |-> [code |-> 400,
                        detail |-> "transaction_id or order_number is required"]]
        ELSE [steps |-> <<"json", "verify_signature", "upsert_order">>,
              pc |-> IF Truthy(OrderRef(payload)) THEN "select_order_number"
                     ELSE "select_transaction_id",
              resp |-> NoResponse]

\* feexpay_webhook up to the first persistence call: the steps taken, and
\* either the response raised or the place upsert_order goes to next.
WebhookEntry(key, r) ==
    LET verdict == verify_signature(key, r.body, SelectedSignature(r.headers))
        payload == r.body.object
    IN  IF verdict # "pass"
        THEN [steps |-> <<"verify_signature">>, pc |-> "done",
              resp |-> [code |-> 401, detail |-> verdict]]
        ELSE IF ~r.body.wellformed
        THEN [steps |-> <<"verify_signature", "json">>, pc |-> "done",
              resp |-> [code |-> 400, detail |-> "Invalid JSON body"]]
        ELSE IF Invalid(payload)
        THEN [steps |-> <<"verify_signature", "json", "upsert_order">>,
              pc |-> "done",
              resp |-> [code |-> 400,
                        detail |-> "transaction_id or order_number is required"]]
        ELSE [steps |-> <<"verify_signature", "json", "upsert_order">>,
              pc |-> IF Truthy(OrderRef(payload)) THEN "select_order_number"
                     ELSE "select_transaction_id",
              resp |-> NoResponse]

\* root() and health(): fixed payloads.
ProbeResponse(route) ==
    IF route = "GET /health" THEN [code |-> 200, detail |-> "healthy"]
    ELSE [code |-> 200, detail |-> "feexpay-webhook 1.0.0"]

Payload(p) == req[p].body.object

\* Every route, the probes included, sent through the webhook handler.
Arrive_AllVerified(p, r) ==
    /\ req' = [req EXCEPT ![p] = r]
    /\ start' = [start EXCEPT ![p] = orders]
    /\ nreq' = nreq + 1
    /\ LET e == WebhookEntry(secret, r)
       IN  /\ pc' = [pc EXCEPT ![p] = e.pc]
           /\ resp' = [resp EXCEPT ![p] = e.resp]
           /\ ops' = [ops EXCEPT ![p] = e.steps]
    /\ UNCHANGED <<secret, orders, arg, result>>

\* A request r arrives at worker p and runs until it answers or reaches its
\* first persistence call.
Arrive(p, r) ==
    /\ req' = [req EXCEPT ![p] = r]
    /\ start' = [start EXCEPT ![p] = orders]
    /\ nreq' = nreq + 1
    /\ IF r.route = WebhookRoute
       THEN LET e == WebhookEntry(secret, r)
            IN  /\ pc' = [pc EXCEPT ![p] = e.pc]
                /\ resp' = [resp EXCEPT ![p] = e.resp]
                /\ ops' = [ops EXCEPT ![p] = e.steps]
       ELSE /\ pc' = [pc EXCEPT ![p] = "done"]
            /\ resp' = [resp EXCEPT ![p] = ProbeResponse(r.route)]
            /\ ops' = [ops EXCEPT ![p] = <<>>]
    /\ UNCHANGED <<secret, orders, arg, result>>

\* Concurrent workers: each takes one request, at any time.
Begin(p) ==
    /\ pc[p] = "idle"
    /\ \E r \in Requests(secret) : Arrive(p, r)
    /\ UNCHANGED first

\* One worker, one request at a time.
SeqBegin ==
    /\ pc[SeqWorker] \in {"idle", "done"}
    /\ nreq < MaxRequests
    /\ \E r \in Requests(secret) : Arrive(SeqWorker, r)
    /\ first' = NoFirst

\* The provider delivers the notification it just delivered once more.
Redeliver ==
    /\ pc[SeqWorker] = "done"
    /\ req[SeqWorker].route = WebhookRoute
    /\ ~first.redelivered
    /\ nreq < MaxRequests
    /\ Arrive(SeqWorker, req[SeqWorker])
    /\ first' = [redelivered |-> TRUE,
                 count |-> BagCardinality(start[SeqWorker]),
                 code |-> resp[SeqWorker].code,
                 ops |-> ops[SeqWorker]]

\* The failure of a persistence call swallowed and answered 200.
Raise500_Swallowed(p, op) ==
    /\ pc' = [pc EXCEPT ![p] = "done"]
    /\ resp' = [resp EXCEPT ![p] = Ok200]
    /\ ops' = [ops EXCEPT ![p] = Append(Append(@, op), "raise")]
    /\ UNCHANGED <<secret, orders, req, start, nreq, first, arg, result>>

\* A persistence call raises; the except-Exception clause of feexpay_webhook
\* answers 500 with str(e).
Raise500(p, op) ==
    /\ pc' = [pc EXCEPT ![p] = "done"]
    /\ resp' = [resp EXCEPT ![p] = [code |-> 500, detail |-> ErrorMessage]]
    /\ ops' = [ops EXCEPT ![p] = Append(Append(@, op), "raise")]
    /\ UNCHANGED <<secret, orders, req, start, nreq, first, arg, result>>

\* An update that does not return, so that the insert follows it.
Return200_NoReturn(p, op) ==
    /\ pc' = [pc EXCEPT ![p] = IF op = "insert" THEN "done" ELSE "insert"]
    /\ resp' = [resp EXCEPT ![p] = IF op = "insert" THEN Ok200 ELSE @]
    /\ ops' = [ops EXCEPT ![p] = Append(@, op)]
    /\ UNCHANGED <<secret, req, start, nreq, first, arg, result>>

\* upsert_order returns (lines 144, 162, 174) and the handler answers 200.
Return200(p, op) ==
    /\ pc' = [pc EXCEPT ![p] = "done"]
    /\ resp' = [resp EXCEPT ![p] = Ok200]
    /\ ops' = [ops EXCEPT ![p] = Append(@, op)]
    /\ UNCHANGED <<secret, req, start, nreq, first, arg, result>>

Goto(p, op, label) ==
    /\ pc' = [pc EXCEPT ![p] = label]
    /\ ops' = [ops EXCEPT ![p] = Append(@, op)]
    /\ UNCHANGED <<secret, orders, req, resp, start, nreq, first, arg, result>>

\* The order_number lookup's miss going straight to the insert.
AfterSelectOrderNumber_NoFallThrough(table, payload) ==
    IF SelectFinds(table, "order_number", OrderRef(payload))
    THEN "update_order_number"
    ELSE "insert"

\* Where upsert_order goes after the order_number lookup.
AfterSelectOrderNumber(table, payload) ==
    IF SelectFinds(table, "order_number", OrderRef(payload))
    THEN "update_order_number"
    ELSE IF Truthy(TxId(payload)) THEN "select_transaction_id"
    ELSE "insert"

\* Where upsert_order goes after the transaction_id lookup.
AfterSelectTransactionId(table, payload) ==
    IF SelectFinds(table, "transaction_id", TxId(payload))
    THEN "update_transaction_id"
    ELSE "insert"

\* lines 129-136
SelectByOrderNumber(p) ==
    /\ pc[p] = "select_order_number"
    /\ \/ Goto(p, "select_order_number",
               AfterSelectOrderNumber(orders, Payload(p)))
       \/ Raise500(p, "select_order_number")

\* lines 137-144
UpdateByOrderNumber(p) ==
    /\ pc[p] = "update_order_number"
    /\ \/ /\ orders' = UpdateWhere(orders, "order_number",
                                   OrderRef(Payload(p)),
                                   FieldsByOrderNumber(Payload(p)))
          /\ Return200(p, "update_order_number")
       \/ Raise500(p, "update_order_number")

\* lines 148-155
SelectByTransactionId(p) ==
    /\ pc[p] = "select_transaction_id"
    /\ \/ Goto(p, "select_transaction_id",
               AfterSelectTransactionId(orders, Payload(p)))
       \/ Raise500(p, "select_transaction_id")

\* lines 156-162
UpdateByTransactionId(p) ==
    /\ pc[p] = "update_transaction_id"
    /\ \/ /\ orders' = UpdateWhere(orders, "transaction_id",
                                   TxId(Payload(p)),
                                   FieldsByTransactionId(Payload(p)))
          /\ Return200(p, "update_transaction_id")
       \/ Raise500(p, "update_transaction_id")

\* lines 165-174
Insert(p) ==
    /\ pc[p] = "insert"
    /\ \/ /\ orders' = InsertRow(orders, NewOrder(Payload(p)))
          /\ Return200(p, "insert")
       \/ Raise500(p, "insert")

Step(p) ==
    \/ SelectByOrderNumber(p)
    \/ UpdateByOrderNumber(p)
    \/ SelectByTransactionId(p)
    \/ UpdateByTransactionId(p)
    \/ Insert(p)

Init ==
    /\ secret \in {Empty, SecretKey}
    /\ orders \in InitStores
    /\ pc = [p \in Workers |-> "idle"]
    /\ req = [p \in Workers |-> NoRequest]
    /\ resp = [p \in Workers |-> NoResponse]
    /\ ops = [p \in Workers |-> <<>>]
    /\ start = [p \in Workers |-> orders]
    /\ nreq = 0
    /\ first = NoFirst
    /\ arg = Null
    /\ result = "none"

Next == \E p \in Workers : Begin(p) \/ Step(p)

Spec == Init /\ [][Next]_vars

SeqNext == SeqBegin \/ Redeliver \/ Step(SeqWorker)

SeqSpec == Init /\ [][SeqNext]_vars

\* The Status Mapper on its own: map_payment_status applied to one input.
RECURSIVE CaseVariants(_)
CaseVariants(word) ==
    IF word = <<>> THEN {<<>>}
    ELSE {<<c>> \o rest :
            c \in {word[1]} \cup {l \in DOMAIN LowerToUpper :
                                    LowerToUpper[l] = word[1]},
            rest \in CaseVariants(Tail(word))}

StatusInputs ==
    UNION {CaseVariants(w) : w \in ConfirmedWords \cup FailedWords}
    \cup UNION {CaseVariants(w) :
                  w \in { <<"S","U","C","C","E","S">>,
                          <<"F","A","I","L","S">>,
                          <<"C","A","N","C","E","L">>,
                          <<"P","E","N","D","I","N","G">>,
                          <<" ","F","A","I","L">>,
                          <<"O","K">> }}
    \cup {Null, Empty}

MapInit ==
    /\ secret = Empty
    /\ orders = EmptyBag
    /\ pc = [p \in Workers |-> "idle"]
    /\ req = [p \in Workers |-> NoRequest]
    /\ resp = [p \in Workers |-> NoResponse]
    /\ ops = [p \in Workers |-> <<>>]
    /\ start = [p \in Workers |-> orders]
    /\ nreq = 0
    /\ first = NoFirst
    /\ arg \in StatusInputs
    /\ result = "none"

MapStatus ==
    /\ result = "none"
    /\ result' = map_payment_status(arg)
    /\ UNCHANGED <<secret, orders, pc, req, resp, ops, start, nreq, first, arg>>

MapSpec == MapInit /\ [][MapStatus]_vars

-----------------------------------------------------------------------------
(* Properties *)

Done(p) == pc[p] = "done"

IsWebhook(p) == req[p].route = WebhookRoute

Ran(p, step) == \E i \in 1..Len(ops[p]) : ops[p][i] = step

\* The persistence operations worker p's request has issued, in order.
Issued(p) == SelectSeq(ops[p], LAMBDA o : o \in PersistenceOps)

Reconciled(p) == IsWebhook(p) /\ Ran(p, "upsert_order")

Signature(p) == SelectedSignature(req[p].headers)

Expected(p) == HexDigest(secret, req[p].body)

Rejected401(p, reason) ==
    /\ resp[p] = [code |-> 401, detail |-> reason]
    /\ ops[p] = <<"verify_signature">>
    /\ orders = start[p]

\* The rows of a table that satisfy column = value, as a number of rows.
RECURSIVE CountIn(_, _, _, _)
CountIn(table, rows, column, value) ==
    IF rows = {} THEN 0
    ELSE LET row == CHOOSE r \in rows : TRUE
         IN  (IF RowMatches(row, column, value)
              THEN CopiesIn(row, table) ELSE 0)
             + CountIn(table, rows \ {row}, column, value)

Count(table, column, value) == CountIn(table, BagToSet(table), column, value)

\* The rows of a table that do not satisfy column = value.
Others(table, column, value) ==
    [row \in {r \in BagToSet(table) : ~RowMatches(r, column, value)} |->
        CopiesIn(row, table)]

\* C1 as stated: with a secret configured, an absent signature is answered 401
\* "Missing signature header", a present signature that differs from the HMAC
\* of the raw body is answered 401 "Invalid signature", and in both cases
\* nothing is parsed, reconciled or sent to the order store.
C1_AsClaimed ==
    \A p \in Workers :
        (Done(p) /\ IsWebhook(p) /\ Truthy(secret)) =>
            /\ Signature(p) = Null => Rejected401(p, "Missing signature header")
            /\ (Signature(p) # Null /\ Signature(p) # Expected(p)) =>
                    Rejected401(p, "Invalid signature")

\* C1, amended: with a secret configured, an absent or empty signature is
\* answered 401 "Missing signature header", a non-empty signature that differs
\* from the HMAC of the raw body is answered 401 "Invalid signature", and in
\* both cases nothing is parsed, reconciled or sent to the order store.
C1_SignatureRejected ==
    \A p \in Workers :
        (Done(p) /\ IsWebhook(p) /\ Truthy(secret)) =>
            /\ ~Truthy(Signature(p)) =>
                    Rejected401(p, "Missing signature header")
            /\ (Truthy(Signature(p)) /\ Signature(p) # Expected(p)) =>
                    Rejected401(p, "Invalid signature")

C1_Witness ==
    \E p \in Workers :
        /\ Done(p) /\ IsWebhook(p) /\ Truthy(secret)
        /\ req[p].headers.feexpay = Empty
        /\ req[p].headers.generic = Null
        /\ req[p].body.wellformed
        /\ Rejected401(p, "Missing signature header")

\* C2: a payload whose transactionId and orderRef are both absent or empty is
\* answered 400 with the validation message, no lookup, update or insert is
\* issued, and the store is unchanged.
C2_ValidationRejects ==
    \A p \in Workers :
        (Done(p) /\ Reconciled(p)
            /\ ~Truthy(Or(Payload(p).transaction_id, Payload(p).reference))
            /\ ~Truthy(Or(Payload(p).order_number, Payload(p).reference))) =>
            /\ resp[p] = [code |-> 400,
                          detail |-> "transaction_id or order_number is required"]
            /\ Issued(p) = <<>>
            /\ orders = start[p]

C2_Witness ==
    \E p \in Workers :
        /\ Done(p) /\ Reconciled(p)
        /\ Payload(p).reference = Empty
        /\ Payload(p).transaction_id = Null
        /\ Payload(p).order_number = Null
        /\ resp[p].code = 400
        /\ start[p] # EmptyBag

\* C3: when orderRef is present and the store holds an order with that
\* order_number, the request issues the order_number lookup and the update
\* only (no transaction_id lookup, no insert), and once the update has
\* succeeded every such order carries the payload's transactionId, orderRef as
\* payment_reference, the provider, the raw status and the mapped status,
\* while no other order and no other column has changed.
C3_UpdateByOrderNumber ==
    \A p \in Workers :
        LET ref == OrderRef(Payload(p))
            raw == Or(Payload(p).status, Payload(p).payment_status)
        IN  (Done(p) /\ Reconciled(p) /\ Truthy(ref)
                /\ Count(start[p], "order_number", ref) > 0) =>
                /\ ~Ran(p, "select_transaction_id") /\ ~Ran(p, "insert")
                /\ resp[p].code # 500 =>
                    /\ resp[p] = Ok200
                    /\ Issued(p) = <<"select_order_number", "update_order_number">>
                    /\ Count(orders, "order_number", ref)
                         = Count(start[p], "order_number", ref)
                    /\ Others(orders, "order_number", ref)
                         = Others(start[p], "order_number", ref)
                    /\ \A row \in BagToSet(orders) :
                         RowMatches(row, "order_number", ref) =>
                            /\ row.transaction_id = TxId(Payload(p))
                            /\ row.payment_reference = ref
                            /\ row.payment_provider
                                 = Or(Payload(p).payment_provider, Feexpay)
                            /\ row.payment_status = raw
                            /\ row.status = map_payment_status(raw)

C3_Witness ==
    \E p \in Workers :
        /\ Done(p) /\ Reconciled(p) /\ resp[p] = Ok200
        /\ OrderRef(Payload(p)) = A1
        /\ TxId(Payload(p)) = T1
        /\ Count(start[p], "order_number", A1) = 1
        /\ EarlierOrder \in BagToSet(start[p])
        /\ Count(orders, "transaction_id", T1) = 2

\* C4: when the only identifier is reference = R, no order has order_number R
\* and an order has transaction_id R, the request falls through from the
\* order_number lookup to the transaction_id lookup, never inserts, and once
\* the update has succeeded every order with transaction_id R carries
\* payment_reference R, the provider, the raw status and the mapped status,
\* with the number of orders unchanged.
C4_FallThroughToTransactionId ==
    \A p \in Workers :
        LET R == Payload(p).reference
            raw == Or(Payload(p).status, Payload(p).payment_status)
        IN  (Done(p) /\ Reconciled(p) /\ Truthy(R)
                /\ ~Truthy(Payload(p).transaction_id)
                /\ ~Truthy(Payload(p).order_number)
                /\ Count(start[p], "order_number", R) = 0
                /\ Count(start[p], "transaction_id", R) > 0) =>
                /\ ~Ran(p, "insert")
                /\ Issued(p)[1] = "select_order_number"
                /\ resp[p].code # 500 =>
                    /\ resp[p] = Ok200
                    /\ Issued(p) = <<"select_order_number",
                                     "select_transaction_id",
                                     "update_transaction_id">>
                    /\ BagCardinality(orders) = BagCardinality(start[p])
                    /\ Others(orders, "transaction_id", R)
                         = Others(start[p], "transaction_id", R)
                    /\ Count(orders, "transaction_id", R)
                         = Count(start[p], "transaction_id", R)
                    /\ \A row \in BagToSet(orders) :
                         RowMatches(row, "transaction_id", R) =>
                            /\ row.payment_reference = R
                            /\ row.payment_provider
                                 = Or(Payload(p).payment_provider, Feexpay)
                            /\ row.payment_status = raw
                            /\ row.status = map_payment_status(raw)

C4_Witness ==
    \E p \in Workers :
        /\ Done(p) /\ Reconciled(p) /\ resp[p] = Ok200
        /\ Payload(p).reference = T1
        /\ Payload(p).transaction_id = Null
        /\ Payload(p).order_number = Null
        /\ Payload(p).payment_status = FailedLower
        /\ ~Truthy(Payload(p).status)
        /\ Count(start[p], "order_number", T1) = 0
        /\ Count(start[p], "transaction_id", T1) = 1
        /\ \E row \in BagToSet(orders) :
             /\ row.transaction_id = T1
             /\ row.payment_reference = T1
             /\ row.status = "failed"

\* C5: for a valid payload, when no order has order_number = orderRef and none
\* has transaction_id = transactionId, a successful request leaves the store
\* as it was plus exactly one new order carrying orderRef, transactionId,
\* orderRef as payment_reference, the payload provider or "feexpay", the raw
\* status, the mapped status, the payload amount and the provenance note.
\* (An identifier that is absent or empty is never looked up, so no stored
\* order counts as having it.)
C5_InsertsOneOrder ==
    \A p \in Workers :
        LET ref == OrderRef(Payload(p))
            tx == TxId(Payload(p))
            raw == Or(Payload(p).status, Payload(p).payment_status)
        IN  (Done(p) /\ Reconciled(p) /\ (Truthy(ref) \/ Truthy(tx))
                /\ (Truthy(ref) => Count(start[p], "order_number", ref) = 0)
                /\ (Truthy(tx) => Count(start[p], "transaction_id", tx) = 0)
                /\ resp[p].code # 500) =>
                /\ resp[p] = Ok200
                /\ Issued(p)[Len(Issued(p))] = "insert"
                /\ ~Ran(p, "update_order_number")
                /\ ~Ran(p, "update_transaction_id")
                /\ orders = start[p] (+) SetToBag({
                     [order_number      |-> ref,
                      transaction_id    |-> tx,
                      payment_reference |-> ref,
                      payment_provider  |-> Or(Payload(p).payment_provider, Feexpay),
                      payment_status    |-> raw,
                      status            |-> map_payment_status(raw),
                      total_amount      |-> Payload(p).amount,
                      notes             |-> ProvenanceNote]})

C5_Witness ==
    \E p \in Workers :
        /\ Done(p) /\ Reconciled(p) /\ resp[p] = Ok200
        /\ Payload(p).order_number = A1
        /\ Payload(p).status = SuccessMixed
        /\ Payload(p).amount = Amount100
        /\ Count(start[p], "order_number", A1) = 0
        /\ BagCardinality(start[p]) > 0
        /\ BagCardinality(orders) = BagCardinality(start[p]) + 1
        /\ \E row \in BagToSet(orders) :
             /\ row.order_number = A1
             /\ row.status = "confirmed"
             /\ row.payment_status = SuccessMixed
             /\ row.payment_reference = A1

\* C6: when a notification that found a matching order and updated it is
\* delivered a second time, with nothing in between and both deliveries
\* answered 200, the store after the second delivery is exactly the store
\* after the first, and it holds as many orders as before the first.
C6_RedeliveryIdempotent ==
    (/\ Done(SeqWorker) /\ Reconciled(SeqWorker)
     /\ first.redelivered
     /\ first.code = 200
     /\ \E i \in 1..Len(first.ops) :
            first.ops[i] \in {"update_order_number", "update_transaction_id"}
     /\ resp[SeqWorker] = Ok200) =>
        /\ orders = start[SeqWorker]
        /\ BagCardinality(orders) = first.count

C6_Witness ==
    /\ Done(SeqWorker) /\ Reconciled(SeqWorker)
    /\ first.redelivered
    /\ first.code = 200
    /\ \E i \in 1..Len(first.ops) : first.ops[i] = "update_transaction_id"
    /\ resp[SeqWorker] = Ok200
    /\ Ran(SeqWorker, "update_transaction_id")
    /\ ShopOrder \in BagToSet(orders)
    /\ EarlierOrder \notin BagToSet(orders)

\* C7 as stated: no two orders share the same non-null order_number.
C7_AsClaimed ==
    \A row \in BagToSet(orders) :
        row.order_number # Null =>
            Count(orders, "order_number", row.order_number) = 1

\* C7, amended: with notifications processed one at a time, no two orders
\* share the same non-empty order_number.
C7_OrderNumberUnique ==
    \A row \in BagToSet(orders) :
        Truthy(row.order_number) =>
            Count(orders, "order_number", row.order_number) = 1

C7_Witness ==
    /\ Done(SeqWorker) /\ resp[SeqWorker] = Ok200
    /\ Ran(SeqWorker, "insert")
    /\ Truthy(OrderRef(Payload(SeqWorker)))
    /\ \E row \in BagToSet(start[SeqWorker]) : Truthy(row.order_number)
    /\ Count(orders, "order_number", Empty) = 1

\* C8: with notifications processed one at a time, no two orders share the
\* same non-null transaction_id.
C8_TransactionIdUnique ==
    \A row \in BagToSet(orders) :
        row.transaction_id # Null =>
            Count(orders, "transaction_id", row.transaction_id) = 1

\* C9: when two concurrent notifications carry the same order_number (or the
\* same transaction_id), no order matched when either began, and both took
\* the insert branch (both lookups finished before either insert), the store
\* ends with two orders for that order_number (or transaction_id).
C9_RaceInsertsTwice ==
    \A p \in Workers : \A q \in Workers \ {p} :
        (/\ Done(p) /\ Done(q)
         /\ Reconciled(p) /\ Reconciled(q)
         /\ resp[p] = Ok200 /\ resp[q] = Ok200
         /\ Ran(p, "insert") /\ Ran(q, "insert")) =>
            /\ (Truthy(OrderRef(Payload(p)))
                 /\ OrderRef(Payload(p)) = OrderRef(Payload(q))) =>
                    Count(orders, "order_number", OrderRef(Payload(p))) = 2
            /\ (Truthy(TxId(Payload(p)))
                 /\ TxId(Payload(p)) = TxId(Payload(q))) =>
                    Count(orders, "transaction_id", TxId(Payload(p))) = 2

C9_Witness ==
    \E p \in Workers : \E q \in Workers \ {p} :
        /\ Done(p) /\ Done(q)
        /\ resp[p] = Ok200 /\ resp[q] = Ok200
        /\ Issued(p) = <<"select_order_number", "insert">>
        /\ Issued(q) = <<"select_order_number", "insert">>
        /\ Payload(p) = Payload(q)
        /\ OrderRef(Payload(p)) = A1
        /\ start[p] = EmptyBag /\ start[q] = EmptyBag
        /\ Count(orders, "order_number", A1) = 2
        /\ BagCardinality(orders) = 2

SameIgnoringCase(status, word) ==
    /\ Len(status) = Len(word)
    /\ \A i \in 1..Len(word) :
         \/ status[i] = word[i]
         \/ /\ status[i] \in DOMAIN LowerToUpper
            /\ LowerToUpper[status[i]] = word[i]

\* C13: map_payment_status answers every input with one of three values:
\* "confirmed" exactly for SUCCESS, SUCCESSFUL, COMPLETED in any letter case,
\* "failed" exactly for FAIL, FAILED, CANCELED, CANCELLED in any letter case,
\* and "pending" for everything else, the empty and the absent input included.
C13_MapStatus ==
    LET confirmed == \E w \in { <<"S","U","C","C","E","S","S">>,
                                <<"S","U","C","C","E","S","S","F","U","L">>,
                                <<"C","O","M","P","L","E","T","E","D">> } :
                         arg # Null /\ SameIgnoringCase(arg, w)
        failed == \E w \in { <<"F","A","I","L">>,
                             <<"F","A","I","L","E","D">>,
                             <<"C","A","N","C","E","L","E","D">>,
                             <<"C","A","N","C","E","L","L","E","D">> } :
                         arg # Null /\ SameIgnoringCase(arg, w)
    IN  result # "none" =>
            /\ result \in {"confirmed", "failed", "pending"}
            /\ result = "confirmed" <=> confirmed
            /\ result = "failed" <=> failed
            /\ result = "pending" <=> (~confirmed /\ ~failed)

C13_Witness ==
    /\ arg = <<"c","a","N","c","e","l","L","E","d">>
    /\ result = "failed"

\* Whether the signature the handler selected lets the request through.
Verified(p) == ~Truthy(secret) \/ Signature(p) = Expected(p)

\* C11: the handler verifies the signature, then decodes the body, then
\* reconciles.  A body that is not JSON is answered 400 "Invalid JSON body",
\* without any persistence call, when the signature check has passed; with a
\* secret configured and the signature missing or wrong it is answered 401.
C11_VerifyThenParse ==
    \A p \in Workers :
        (Done(p) /\ IsWebhook(p)) =>
            /\ ops[p][1] = "verify_signature"
            /\ Ran(p, "json") => ops[p][2] = "json"
            /\ Ran(p, "upsert_order") => ops[p][3] = "upsert_order"
            /\ ~req[p].body.wellformed =>
                /\ Issued(p) = <<>>
                /\ orders = start[p]
                /\ ~Ran(p, "upsert_order")
                /\ Verified(p) =>
                     /\ resp[p] = [code |-> 400, detail |-> "Invalid JSON body"]
                     /\ ops[p] = <<"verify_signature", "json">>
                /\ ~Verified(p) =>
                     /\ resp[p].code = 401
                     /\ ops[p] = <<"verify_signature">>

C11_Witness ==
    \E p \in Workers :
        /\ Done(p) /\ IsWebhook(p)
        /\ Truthy(secret)
        /\ ~req[p].body.wellformed
        /\ req[p].headers.feexpay = HexDigest(OtherKey, req[p].body)
        /\ resp[p] = [code |-> 401, detail |-> "Invalid signature"]

\* C12: with no secret configured, no webhook request is answered 401,
\* whatever its body and its signature headers (absent ones included); every
\* one of them goes on to the decoding of its body.
C12_PermissiveMode ==
    \A p \in Workers :
        (Done(p) /\ IsWebhook(p) /\ ~Truthy(secret)) =>
            /\ resp[p].code # 401
            /\ Ran(p, "json")

C12_Witness ==
    \E p \in Workers :
        /\ Done(p) /\ IsWebhook(p) /\ ~Truthy(secret)
        /\ req[p].headers = NoHeaders
        /\ req[p].body.wellformed
        /\ resp[p] = Ok200

\* C16: GET /, POST / and GET /health answer their fixed payloads whatever
\* the secret, the headers and the body, issue no persistence call and leave
\* the order store as it was.
C16_ProbesAreInert ==
    \A p \in Workers :
        (Done(p) /\ req[p].route \in {"GET /", "POST /", "GET /health"}) =>
            /\ req[p].route = "GET /health" =>
                    resp[p] = [code |-> 200, detail |-> "healthy"]
            /\ req[p].route \in {"GET /", "POST /"} =>
                    resp[p] = [code |-> 200, detail |-> "feexpay-webhook 1.0.0"]
            /\ ops[p] = <<>>
            /\ orders = start[p]

C16_Witness ==
    \E p \in Workers :
        /\ Done(p) /\ req[p].route = "POST /"
        /\ Truthy(secret)
        /\ req[p].headers # NoHeaders
        /\ resp[p].code = 200
        /\ orders # EmptyBag
        /\ nreq > 1

\* C20 as stated: the verifier gets X-Feexpay-Signature whenever that header
\* is present, X-Signature only when it is not.
C20_AsClaimed ==
    \A p \in Workers :
        LET claimed == IF req[p].headers.feexpay # Null
                       THEN req[p].headers.feexpay
                       ELSE req[p].headers.generic
        IN  (Done(p) /\ IsWebhook(p) /\ Truthy(secret)) =>
                (resp[p].code = 401 <=> claimed # Expected(p))

\* C20, amended: the verifier gets X-Feexpay-Signature whenever that header
\* is present and not empty, X-Signature when it is absent or empty; with a
\* secret configured, a wrong non-empty X-Feexpay-Signature is answered 401
\* even when X-Signature is correct.
C20_HeaderSelection ==
    \A p \in Workers :
        LET selected == IF Truthy(req[p].headers.feexpay)
                        THEN req[p].headers.feexpay
                        ELSE req[p].headers.generic
        IN  (Done(p) /\ IsWebhook(p) /\ Truthy(secret)) =>
                /\ resp[p].code = 401 <=> selected # Expected(p)
                /\ (Truthy(selected) /\ selected # Expected(p)) =>
                        resp[p].detail = "Invalid signature"
                /\ ~Truthy(selected) =>
                        resp[p].detail = "Missing signature header"

C20_Witness ==
    \E p \in Workers :
        /\ Done(p) /\ IsWebhook(p) /\ Truthy(secret)
        /\ req[p].headers.feexpay = HexDigest(OtherKey, req[p].body)
        /\ req[p].headers.generic = Expected(p)
        /\ resp[p] = [code |-> 401, detail |-> "Invalid signature"]

\* A request that was answered 200, so that its write was applied.
Wrote(p) == Done(p) /\ Reconciled(p) /\ resp[p] = Ok200

\* The rows the request of worker p wrote, as they are in the store after it.
WrittenRows(p) ==
    IF Ran(p, "update_order_number")
    THEN {row \in BagToSet(orders) :
            RowMatches(row, "order_number", OrderRef(Payload(p)))}
    ELSE IF Ran(p, "update_transaction_id")
    THEN {row \in BagToSet(orders) :
            RowMatches(row, "transaction_id", TxId(Payload(p)))}
    ELSE {row \in BagToSet(orders) : orders = start[p] (+) SetToBag({row})}

\* C14 as stated: after reconcile updates or inserts an order, on any branch,
\* that order's payment_reference equals its order_number.
C14_AsClaimed ==
    \A p \in Workers :
        Wrote(p) =>
            \A row \in WrittenRows(p) :
                row.payment_reference = row.order_number

\* C14, amended: after reconcile updates or inserts an order, that order's
\* payment_reference equals the notification's orderRef; this is the order's
\* order_number on the order_number branch and on the insert branch, while on
\* the transaction_id branch the order keeps an order_number that differs
\* from a non-empty orderRef.
C14_PaymentReference ==
    \A p \in Workers :
        Wrote(p) =>
            \A row \in WrittenRows(p) :
                /\ row.payment_reference
                     = Or(Payload(p).order_number, Payload(p).reference)
                /\ ~Ran(p, "update_transaction_id") =>
                     row.payment_reference = row.order_number
                /\ (Ran(p, "update_transaction_id")
                      /\ Truthy(row.payment_reference)) =>
                     row.payment_reference # row.order_number

C14_Witness ==
    \E p \in Workers :
        /\ Wrote(p)
        /\ Ran(p, "update_transaction_id")
        /\ \E row \in WrittenRows(p) :
             /\ row.transaction_id = T1
             /\ row.payment_reference = T1
             /\ row.order_number = A1

\* The table with only the given columns kept in every row.
Project(table, columns) ==
    LET rows == BagToSet(table)
    IN  [kept \in {[k \in columns |-> row[k]] : row \in rows} |->
            CopiesOf(table, {row \in rows :
                        [k \in columns |-> row[k]] = kept})]

\* C15: a notification that takes an update branch leaves order_number,
\* total_amount and notes of every order as they were, whatever amount it
\* carries; on the transaction_id branch transaction_id is left as well.
C15_UpdateKeepsInsertOnlyColumns ==
    \A p \in Workers :
        (Done(p) /\ Reconciled(p)) =>
            /\ Ran(p, "update_order_number") =>
                 Project(orders, {"order_number", "total_amount", "notes"})
                   = Project(start[p], {"order_number", "total_amount", "notes"})
            /\ Ran(p, "update_transaction_id") =>
                 Project(orders, {"order_number", "transaction_id",
                                  "total_amount", "notes"})
                   = Project(start[p], {"order_number", "transaction_id",
                                        "total_amount", "notes"})

C15_Witness ==
    \E p \in Workers :
        /\ Wrote(p)
        /\ Ran(p, "update_transaction_id")
        /\ Payload(p).amount = Amount100
        /\ orders # start[p]
        /\ \E row \in WrittenRows(p) :
             /\ row.total_amount = Null
             /\ row.notes = ProvenanceNote

\* The writes among the steps of a request.
Writes(steps) ==
    Len(SelectSeq(steps, LAMBDA o : o \in {"update_order_number",
                                           "update_transaction_id",
                                           "insert"}))

\* C17: a notification issues at most one write (one update or one insert,
\* never both); no step removes an order, and the number of orders grows by
\* one only in the insert step of some notification.
C17_AtMostOneWrite ==
    [][/\ \A p \in Workers : Writes(ops'[p]) <= 1
       /\ BagCardinality(orders') \in
            {BagCardinality(orders), BagCardinality(orders) + 1}
       /\ BagCardinality(orders') = BagCardinality(orders) + 1 =>
            \E p \in Workers : ops'[p] = Append(ops[p], "insert")]_vars

C17_Witness ==
    \E p \in Workers : \E q \in Workers \ {p} :
        /\ Wrote(p) /\ Wrote(q)
        /\ Issued(p) = <<"select_order_number", "update_order_number">>
        /\ Issued(q) = <<"select_order_number", "select_transaction_id", "insert">>
        /\ BagCardinality(orders) = BagCardinality(start[p]) + 1

\* C18: every stored order has the status that map_payment_status gives for
\* its stored payment_status (an absent payment_status read as empty).
C18_StatusConsistent ==
    \A row \in BagToSet(orders) :
        row.status = map_payment_status(row.payment_status)

C18_Witness ==
    \E p \in Workers :
        /\ Wrote(p)
        /\ Ran(p, "update_transaction_id")
        /\ \E row \in WrittenRows(p) :
             /\ row.payment_status = FailedLower
             /\ row.status = "failed"

\* The number of rows of the table before that are no longer in the table
\* after.
RECURSIVE Missing(_, _, _)
Missing(beforeTable, afterTable, rows) ==
    IF rows = {} THEN 0
    ELSE LET row == CHOOSE r \in rows : TRUE
             gone == CopiesIn(row, beforeTable) - CopiesIn(row, afterTable)
         IN  (IF gone > 0 THEN gone ELSE 0)
             + Missing(beforeTable, afterTable, rows \ {row})

\* C19: a notification that takes an update branch modifies at most one
\* order, also when several orders share the order_number or transaction_id.
C19_UpdatesOneOrder ==
    \A p \in Workers :
        (Wrote(p) /\ (Ran(p, "update_order_number")
                        \/ Ran(p, "update_transaction_id"))) =>
            Missing(start[p], orders, BagToSet(start[p])) <= 1

====
